---- MODULE Spec2Model ----
(***************************************************************************)
(* TwitterStreams (simoneBrancati/twitter-streams): the constructor and    *)
(* its validation, and the connection / retry / idle-timeout machinery of  *)
(* createConnection and readStream.                                        *)
(***************************************************************************)
EXTENDS Integers, Sequences, FiniteSets, TLC

(***************************************************************************)
(* JavaScript values.  Every value has the same three fields so that any   *)
(* two values can be compared: t is the kind, n the number (or 1/0 for a   *)
(* boolean), p the text of a string or the name of a function.             *)
(***************************************************************************)
JS(t, n, p) == [t |-> t, n |-> n, p |-> p]

Undefined == JS("undefined", 0, "")

Null == JS("null", 0, "")

Bool(b) == JS("boolean", IF b THEN 1 ELSE 0, "")

Num(n) == JS("number", n, "")

NaN == JS("number", 0, "NaN")

Str(s) == JS("string", 0, s)

Obj(p) == JS("object", 0, p)

Fn(p) == JS("function", 0, p)

\* ToBoolean: what `!v`, `v && ...`, `v || ...` and `if (v)` test
Truthy(v) ==
    CASE v.t \in {"undefined", "null"} -> FALSE
      [] v.t = "boolean" -> v.n = 1
      [] v.t = "number" -> v.n # 0 /\ v.p # "NaN"
      [] v.t = "string" -> v.p # ""
      [] OTHER -> TRUE

\* the typeof operator
TypeOf(v) == IF v.t = "null" THEN "object" ELSE v.t

\* v instanceof Object: objects (arrays included) and functions, no primitive
InstanceOfObject(v) == v.t \in {"object", "function"}

\* v instanceof Function
InstanceOfFunction(v) == v.t = "function"

\* a || b
Or(a, b) == IF Truthy(a) THEN a ELSE b

\* ToNumber, as the arithmetic operators apply it to an operand
ToNumber(v) ==
    CASE v.t = "number" -> v
      [] v.t = "boolean" -> Num(v.n)
      [] v.t = "null" -> Num(0)
      [] v.t = "string" /\ v.p = "" -> Num(0)
      [] OTHER -> NaN

(***************************************************************************)
(* Bounds of the model.                                                    *)
(***************************************************************************)
\* createConnection calls in one run (the caller's and the retries')
MaxConns == 2

\* chunks received in one run, over all streams
MaxData == 2

(***************************************************************************)
(* Configuration and construction.                                         *)
(***************************************************************************)
\* __defaultTimeout
DefaultTimeout == 20000

\* the step of the README's customBackoff, (backoff) => backoff + 5000, scaled
CustomStep == 1

\* __defaultBackoffAlgorithm: backoff ** 2
DefaultBackoffAlgorithm(backoff) ==
    LET x == ToNumber(backoff)
    IN  IF x.p = "NaN" THEN NaN ELSE Num(x.n * x.n)

\* the README's custom backoff: backoff + step ('' + step concatenates)
AddBackoff(backoff) ==
    IF backoff.t = "string" THEN Str(backoff.p \o "1")
    ELSE LET x == ToNumber(backoff)
         IN  IF x.p = "NaN" THEN NaN ELSE Num(x.n + CustomStep)

\* calling the function value f with one argument
Apply(f, x) ==
    IF f.p = "square" THEN DefaultBackoffAlgorithm(x) ELSE AddBackoff(x)

\* the constructor's arguments; base and customBackoff are the properties
\* config.retry.base and config.retry.customBackoff (undefined on a primitive)
Args(bearerToken, url, timeout, retryV, baseV, customV) ==
    [bearerToken |-> bearerToken, url |-> url, timeout |-> timeout,
     retry |-> retryV, base |-> baseV, customBackoff |-> customV]

\* __validateRequired: the field named by the ConfigurationError, or "ok"
ValidateRequired(bearerToken, url) ==
    IF ~Truthy(bearerToken) \/ TypeOf(bearerToken) # "string" THEN "bearer token"
    ELSE IF ~Truthy(url) \/ TypeOf(url) # "string" THEN "url"
    ELSE "ok"

ValidateConfig_BaseUnchecked(a) ==
    IF Truthy(a.timeout) /\ TypeOf(a.timeout) # "number" THEN "timeout"
    ELSE IF Truthy(a.retry) /\ ~InstanceOfObject(a.retry) THEN "retry"
    ELSE IF Truthy(a.retry) /\ Truthy(a.customBackoff)
            /\ ~InstanceOfFunction(a.customBackoff)
         THEN "retry.customBackoff"
    ELSE "ok"

\* __validateConfig: the field named by the ConfigurationError, or "ok"
ValidateConfig(a) ==
    IF Truthy(a.timeout) /\ TypeOf(a.timeout) # "number" THEN "timeout"
    ELSE IF Truthy(a.retry) /\ ~InstanceOfObject(a.retry) THEN "retry"
    ELSE IF Truthy(a.retry) /\ Truthy(a.base) /\ TypeOf(a.base) # "number"
         THEN "retry.base"
    ELSE IF Truthy(a.retry) /\ Truthy(a.customBackoff)
            /\ ~InstanceOfFunction(a.customBackoff)
         THEN "retry.customBackoff"
    ELSE "ok"

\* class ConfigurationError: its message
ConfigurationError(configurationParameter) ==
    "Invalid configuration parameter: " \o configurationParameter

\* the two copies of the class in the repository
Impls == {"part_002", "twitterStreams.js"}

\* twitterStreams.js, __validateRequired(bearerToken): no url parameter
ValidateRequiredOld(bearerToken) ==
    IF ~Truthy(bearerToken) \/ TypeOf(bearerToken) # "string" THEN "bearer token"
    ELSE "ok"

\* the fields of an instance; none exists when the constructor has thrown
Instance(thrownV, messageV, timeoutV, retryV, baseV, customV) ==
    [thrown |-> thrownV, message |-> messageV, timeout |-> timeoutV,
     retry |-> retryV, base |-> baseV, currentBackoff |-> baseV,
     customBackoff |-> customV]

Thrown(field) ==
    Instance(TRUE, ConfigurationError(field), Undefined, Undefined, Undefined,
             Undefined)

\* new TwitterStreams(...): a thrown ConfigurationError, or the fields of the
\* new instance.  twitterStreams.js takes (bearerToken, config) and leaves the
\* function __defaultTimeout itself, uncalled, as the default timeout.
Constructor(impl, a) ==
    LET r == IF impl = "part_002" THEN ValidateRequired(a.bearerToken, a.url)
             ELSE ValidateRequiredOld(a.bearerToken)
        c == ValidateConfig(a)
        dflt == IF impl = "part_002" THEN Num(DefaultTimeout)
                ELSE Fn("__defaultTimeout")
    IN  IF r # "ok" THEN Thrown(r)
        ELSE IF c # "ok" THEN Thrown(c)
        ELSE IF Truthy(a.retry)
             THEN Instance(FALSE, "", Or(a.timeout, dflt), Bool(TRUE), a.base,
                           Or(a.customBackoff, Fn("square")))
             ELSE Instance(FALSE, "", Or(a.timeout, dflt), Undefined, Undefined,
                           Undefined)

(***************************************************************************)
(* Chunks and JSON.parse.  A chunk is the text of one 'data' event, as the *)
(* sequence of its lexical tokens; JSON.parse is computed on it for scalar *)
(* values and for objects whose members are scalars.                       *)
(***************************************************************************)
Whitespace == {"\r\n", " "}

\* the scalar tokens and the values they denote
ScalarTokens ==
    [tok \in {"null", "true", "false", "0", "1", "\"\"", "\"hi\"",
              "\"ConnectionException\"", "\"title\"", "\"id\""} |->
        CASE tok = "null" -> Null
          [] tok = "true" -> Bool(TRUE)
          [] tok = "false" -> Bool(FALSE)
          [] tok = "0" -> Num(0)
          [] tok = "1" -> Num(1)
          [] tok = "\"\"" -> Str("")
          [] tok = "\"hi\"" -> Str("hi")
          [] tok = "\"ConnectionException\"" -> Str("ConnectionException")
          [] tok = "\"title\"" -> Str("title")
          [] tok = "\"id\"" -> Str("id")]

IsScalar(tok) == tok \in DOMAIN ScalarTokens

IsStringToken(tok) == IsScalar(tok) /\ ScalarTokens[tok].t = "string"

\* a parsed value: v is the value, props the members of an object
Parsed(v, props) == [ok |-> TRUE, v |-> v, props |-> props]

NoProps == [k \in {} |-> Undefined]

SyntaxError == [ok |-> FALSE, v |-> Undefined, props |-> NoProps]

\* the members  key : scalar (, key : scalar)*  between the braces
MembersOk(m) ==
    /\ Len(m) % 4 = 3
    /\ \A i \in 1..Len(m) :
          CASE i % 4 = 1 -> IsStringToken(m[i])
            [] i % 4 = 2 -> m[i] = ":"
            [] i % 4 = 3 -> IsScalar(m[i])
            [] OTHER -> m[i] = ","

\* a later member of the same name replaces an earlier one
Members(m) ==
    LET keys == {ScalarTokens[m[i]].p : i \in {j \in 1..Len(m) : j % 4 = 1}}
        last(k) == CHOOSE i \in 1..Len(m) :
                      /\ i % 4 = 1 /\ ScalarTokens[m[i]].p = k
                      /\ \A j \in (i+1)..Len(m) :
                            ~(j % 4 = 1 /\ ScalarTokens[m[j]].p = k)
    IN  [k \in keys |-> ScalarTokens[m[last(k) + 2]]]

\* JSON.parse(text): whitespace is skipped, one value must span the whole text
JSONparse(text) ==
    LET s == SelectSeq(text, LAMBDA tok : tok \notin Whitespace)
    IN  IF Len(s) = 0 THEN SyntaxError
        ELSE IF Len(s) = 1
             THEN IF IsScalar(s[1]) THEN Parsed(ScalarTokens[s[1]], NoProps)
                  ELSE SyntaxError
        ELSE IF s[1] = "{" /\ s[Len(s)] = "}"
             THEN IF Len(s) = 2 THEN Parsed(Obj(""), NoProps)
                  ELSE IF MembersOk(SubSeq(s, 2, Len(s) - 1))
                       THEN Parsed(Obj(""), Members(SubSeq(s, 2, Len(s) - 1)))
                       ELSE SyntaxError
        ELSE SyntaxError

IsJSON_TrueOnSuccess(string) ==
    LET r == JSONparse(string)
    IN  IF r.ok THEN Parsed(IF r.v.t = "object" THEN r.v ELSE Bool(TRUE), r.props)
        ELSE Parsed(Bool(FALSE), NoProps)

\* __isJSON: the parsed value, or false when JSON.parse throws
IsJSON(string) ==
    LET r == JSONparse(string)
    IN  IF r.ok THEN r ELSE Parsed(Bool(FALSE), NoProps)

\* json.title
Title(json) ==
    IF json.v.t = "object" /\ "title" \in DOMAIN json.props
    THEN json.props["title"] ELSE Undefined

Classify_NoKeepAlive(json) ==
    IF Title(json) = Str("ConnectionException") THEN "exception" ELSE "payload"

\* the branch the data handler takes for a chunk
Classify(json) ==
    IF ~Truthy(json.v) THEN "keepalive"
    ELSE IF Title(json) = Str("ConnectionException") THEN "exception"
    ELSE "payload"

KeepAliveChunk == <<"\r\n">>

ExceptionChunk == <<"{", "\"title\"", ":", "\"ConnectionException\"", "}">>

TweetChunk == <<"{", "\"id\"", ":", "1", "}">>

\* text that is not one JSON value: an object cut off, two lines in one chunk
PartialChunk == <<"{", "\"id\"", ":">>

TwoLinesChunk == <<"{", "\"id\"", ":", "1", "}", "\r\n",
                   "{", "\"id\"", ":", "1", "}">>

\* the JSON values null, false, 0 and ""
FalsyValueChunks == {<<"null">>, <<"false">>, <<"0">>, <<"\"\"">>}

\* the chunks a stream delivers in the model
Chunks == {KeepAliveChunk, ExceptionChunk, TweetChunk}

(***************************************************************************)
(* State.                                                                  *)
(***************************************************************************)
VARIABLES
    impl,               \* which copy of the class runs
    args,               \* the constructor's arguments
    phase,              \* "new": constructor not run yet; "thrown"; "created"
    message,            \* the message of the thrown ConfigurationError
    timeout,            \* this._timeout
    retry,              \* this._retry
    base,               \* this._base
    currentBackoff,     \* this._currentBackoff
    customBackoff,      \* this._customBackoff
    abortController,    \* this._abortController: a controller's number, 0: none
    aborted,            \* the controllers whose signal is aborted, each with
                        \* the controller its aborting timer was armed under
    connectionTimeout,  \* this.__connectionTimeout: a timer handle
    timers,             \* the pending setTimeout timers of __startTimeout
    conns,              \* one record per createConnection call, in call order
    retries,            \* one record per run of the 'timeout' handler's retry
    consecutive,        \* retries begun since the last backoff reset
    nData,              \* 'data' events handled so far
    delivered,          \* the calls of the caller's handler: <<stream, json>>
    inflight,           \* calls of the caller's handler not yet settled
    overwrite,          \* the run of overwriteRules: its position, the rules
                        \* getRules returned and the calls made, in order
    ev                  \* the last event handled

vars == <<impl, args, phase, message, timeout, retry, base, currentBackoff,
          customBackoff, abortController, aborted, connectionTimeout, timers,
          conns, retries, consecutive, nData, delivered, inflight, overwrite,
          ev>>

config == <<impl, args, phase, message, timeout, retry, base, customBackoff>>

\* a timer handle, as setTimeout returns it
TimerHandle(id) == JS("timer", id, "")

Event(type, conn, chunk, before) ==
    [type |-> type, conn |-> conn, chunk |-> chunk, before |-> before]

\* bearer token, url and timeout of the README's QuickStart
ValidArgs(retryV, baseV, customV) ==
    Args(Str("xxxxxxxxxxx"), Str("https://api.twitter.com/2/tweets/search/stream"),
         Num(30000), retryV, baseV, customV)

\* the configurations the streaming runs start from
StreamArgs ==
    { Args(Str("xxxxxxxxxxx"), Str("https://api.twitter.com/2/tweets/search/stream"),
           Undefined, Undefined, Undefined, Undefined),
      ValidArgs(Obj("retry"), Num(3), Undefined),
      ValidArgs(Obj("retry"), Num(2), Fn("add")) }

\* the fields a constructed (or failed) instance starts with
Constructed(i, a) ==
    LET c == Constructor(i, a)
    IN  /\ phase = (IF c.thrown THEN "thrown" ELSE "created")
        /\ message = c.message
        /\ timeout = c.timeout
        /\ retry = c.retry
        /\ base = c.base
        /\ currentBackoff = c.currentBackoff
        /\ customBackoff = c.customBackoff
        \* twitterStreams.js: this._abortController = new AbortController()
        /\ abortController = (IF ~c.thrown /\ i = "twitterStreams.js" THEN 1 ELSE 0)

\* a rule of the response of getRules
Rule(id) == [id |-> id]

\* the parsed body getRules returns: {data: [...]}, or a body without data
RulesResponse(hasData, data) == [hasData |-> hasData, data |-> data]

\* a call of getRules, deleteRules or createRules: its argument (the ids, or
\* the hashtag) and whether its promise is pending, resolved or rejected
Call(op, ids, hashtag) == [op |-> op, ids |-> ids, hashtag |-> hashtag, st |-> "pending"]

Overwrite(pc, hashtag, rules, calls) ==
    [pc |-> pc, hashtag |-> hashtag, rules |-> rules, calls |-> calls]

NoOverwrite == Overwrite("idle", "", RulesResponse(FALSE, <<>>), <<>>)

Idle ==
    /\ overwrite = NoOverwrite
    /\ aborted = {}
    /\ connectionTimeout = Undefined
    /\ timers = {}
    /\ conns = <<>>
    /\ retries = <<>>
    /\ consecutive = 0
    /\ nData = 0
    /\ delivered = <<>>
    /\ inflight = 0
    /\ ev = Event("none", 0, <<>>, Undefined)

\* the state after construction with a valid configuration
Init ==
    /\ impl \in Impls
    /\ args \in StreamArgs
    /\ Constructed(impl, args)
    /\ Idle

(***************************************************************************)
(* Helpers of the handlers.                                                *)
(***************************************************************************)
ClearTimeout_Noop(handle, pending) == pending

\* clearTimeout(handle): cancels the pending timer with that handle, if any
ClearTimeout(handle, pending) == {t \in pending : TimerHandle(t.id) # handle}

\* resetBackoff
ResetBackoff == base

\* increaseBackoff
IncreaseBackoff == Apply(customBackoff, currentBackoff)

\* a connection: st is "fetching" until fetch settles, then "streaming" or
\* "failed"; ctrl is the controller whose signal the fetch was given; cb tells
\* whether readStream was given the caller's handler; open: the body may still
\* deliver chunks; errFwd: __streamPipe's once('error') listener is attached;
\* timedOut: a 'timeout' event was emitted on the stream
Conn(st, ctrl, origin, r, urlOk) ==
    [st |-> st, ctrl |-> ctrl, origin |-> origin, retry |-> r, urlOk |-> urlOk,
     cb |-> FALSE, open |-> FALSE, errFwd |-> FALSE, timedOut |-> FALSE]

\* a run of the retry branch of the 'timeout' handler: pc is "sleep" during
\* __sleep, "fetch" during createConnection, "done" after readStream,
\* "rejected" when createConnection threw
Retry(from, ms, k) == [from |-> from, ms |-> ms, k |-> k, pc |-> "sleep", conn |-> 0]

\* the part of the state the 'timeout' handler works on
Sup(cs, rs, k) == [conns |-> cs, retries |-> rs, consecutive |-> k]

TimeoutHandler_Dropped(i, st) ==
    Sup([st.conns EXCEPT ![i].timedOut = TRUE], st.retries, st.consecutive)

TimeoutHandler_FirstOnly(i, st) ==
    IF Truthy(retry) /\ st.conns[i].origin = "caller"
    THEN Sup([st.conns EXCEPT ![i].timedOut = TRUE],
             Append(st.retries, Retry(i, currentBackoff, st.consecutive + 1)),
             st.consecutive + 1)
    ELSE Sup([st.conns EXCEPT ![i].timedOut = TRUE], st.retries, st.consecutive)

\* twitterStream.emit('timeout') on stream i: the 'timeout' handler runs up to
\* its first await, the __sleep of the current backoff
TimeoutHandler(i, st) ==
    IF Truthy(retry)
    THEN Sup([st.conns EXCEPT ![i].timedOut = TRUE],
             Append(st.retries, Retry(i, currentBackoff, st.consecutive + 1)),
             st.consecutive + 1)
    ELSE Sup([st.conns EXCEPT ![i].timedOut = TRUE], st.retries, st.consecutive)

\* the 'error' handler for an AbortError on stream i: clearTimeout(this.timeout)
\* is given the duration, which is no timer's handle, then 'timeout' is emitted
AbortErrorHandler(i, st) == TimeoutHandler(i, st)

\* what controller.abort() does to connection i, whose fetch was given the
\* signal: a pending fetch rejects, so that createConnection throws inside
\* the 'timeout' handler that called it; a response body gets an AbortError,
\* which __streamPipe's once('error') listener forwards to the stream
AbortOne(i, st) ==
    LET c == st.conns[i]
    IN  IF c.st = "fetching"
        THEN Sup([st.conns EXCEPT ![i].st = "failed"],
                 IF c.retry = 0 THEN st.retries
                 ELSE [st.retries EXCEPT ![c.retry].pc = "rejected"],
                 st.consecutive)
        ELSE IF c.st = "streaming" /\ c.errFwd
        THEN AbortErrorHandler(i,
                 Sup([st.conns EXCEPT ![i].open = FALSE, ![i].errFwd = FALSE],
                     st.retries, st.consecutive))
        ELSE st

RECURSIVE AbortFrom(_, _, _)
\* abort of controller ctrl, over the connections i..Len(conns) in order
AbortFrom(i, ctrl, st) ==
    IF i > Len(st.conns) THEN st
    ELSE AbortFrom(i + 1, ctrl,
                   IF st.conns[i].ctrl = ctrl THEN AbortOne(i, st) ELSE st)

AbortedCtrls == {a.ctrl : a \in aborted}

(***************************************************************************)
(* Operations.                                                             *)
(***************************************************************************)
\* createConnection up to its await of fetch.  part_002 refreshes the
\* controller and fetches this.url; twitterStreams.js keeps the constructor's
\* controller and fetches its url parameter, which the retry does not pass
CreateConnection(origin, r) ==
    IF impl = "part_002"
    THEN Conn("fetching", Len(conns) + 1, origin, r, TRUE)
    ELSE Conn("fetching", abortController, origin, r, origin = "caller")

\* the caller: const stream = await ts.createConnection()
CallerStart ==
    /\ phase = "created"
    /\ Len(conns) = 0
    /\ conns' = Append(conns, CreateConnection("caller", 0))
    /\ abortController' = conns'[Len(conns')].ctrl
    /\ ev' = Event("start", Len(conns'), <<>>, currentBackoff)
    /\ UNCHANGED <<config, overwrite, currentBackoff, aborted, connectionTimeout, timers,
                   retries, consecutive, nData, delivered, inflight>>

\* fetch resolves: the body is piped into the stream.  The caller then calls
\* readStream(stream, cb); the 'timeout' handler calls increaseBackoff and
\* readStream(retryStream), without a handler
FetchOk(i) ==
    /\ i \in 1..Len(conns)
    /\ conns[i].st = "fetching"
    /\ conns[i].urlOk
    /\ conns[i].ctrl \notin AbortedCtrls
    /\ conns' = [conns EXCEPT ![i].st = "streaming", ![i].open = TRUE,
                              ![i].errFwd = TRUE,
                              ![i].cb = (conns[i].origin = "caller")]
    /\ IF conns[i].origin = "retry"
       THEN /\ currentBackoff' = IncreaseBackoff
            /\ retries' = [retries EXCEPT ![conns[i].retry].pc = "done"]
       ELSE UNCHANGED <<currentBackoff, retries>>
    /\ ev' = Event("fetchOk", i, <<>>, currentBackoff)
    /\ UNCHANGED <<config, overwrite, abortController, aborted, connectionTimeout, timers,
                   consecutive, nData, delivered, inflight>>

\* fetch rejects (no url, signal already aborted, network): createConnection
\* throws; in the 'timeout' handler nothing catches it
FetchFail(i) ==
    /\ i \in 1..Len(conns)
    /\ conns[i].st = "fetching"
    /\ conns' = [conns EXCEPT ![i].st = "failed"]
    /\ retries' = IF conns[i].origin = "retry"
                  THEN [retries EXCEPT ![conns[i].retry].pc = "rejected"]
                  ELSE retries
    /\ ev' = Event("fetchFail", i, <<>>, currentBackoff)
    /\ UNCHANGED <<config, overwrite, currentBackoff, abortController, aborted,
                   connectionTimeout, timers, consecutive, nData, delivered,
                   inflight>>

\* the 'data' handler of readStream, for one chunk on stream i
Data(i, chunk) ==
    /\ i \in 1..Len(conns)
    /\ conns[i].st = "streaming"
    /\ conns[i].open
    /\ nData < MaxData
    /\ nData' = nData + 1
    \* __clearTimeout(); __startTimeout()
    /\ timers' = ClearTimeout(connectionTimeout, timers)
                   \cup {[id |-> nData + 1, armedFor |-> abortController,
                          by |-> i, ms |-> timeout]}
    /\ connectionTimeout' = TimerHandle(nData + 1)
    /\ LET json == IsJSON(chunk)
           class == Classify(json)
       IN  CASE class = "keepalive" ->
                  /\ currentBackoff' = ResetBackoff
                  /\ consecutive' = 0
                  /\ UNCHANGED <<conns, retries, delivered, inflight>>
             [] class = "exception" ->
                  LET st == TimeoutHandler(i, Sup(conns, retries, consecutive))
                  IN  /\ conns' = st.conns
                      /\ retries' = st.retries
                      /\ consecutive' = st.consecutive
                      /\ UNCHANGED <<currentBackoff, delivered, inflight>>
             [] OTHER ->
                  /\ currentBackoff' = ResetBackoff
                  /\ consecutive' = 0
                  /\ IF conns[i].cb
                     THEN /\ delivered' = Append(delivered, <<i, json>>)
                          /\ inflight' = inflight + 1
                     ELSE UNCHANGED <<delivered, inflight>>
                  /\ UNCHANGED <<conns, retries>>
    /\ ev' = Event("data", i, chunk, currentBackoff)
    /\ UNCHANGED <<config, overwrite, abortController, aborted>>

\* the promise returned by the caller's handler settles
HandlerDone ==
    /\ inflight > 0
    /\ inflight' = inflight - 1
    /\ ev' = Event("handlerDone", 0, <<>>, currentBackoff)
    /\ UNCHANGED <<config, overwrite, currentBackoff, abortController, aborted,
                   connectionTimeout, timers, conns, retries, consecutive,
                   nData, delivered>>

\* a timer of __startTimeout fires: this.abortController.abort(), on the
\* controller the field holds when the timer fires
WatchdogFire(t) ==
    /\ t \in timers
    /\ timers' = timers \ {t}
    /\ IF abortController \in AbortedCtrls
       THEN UNCHANGED <<aborted, conns, retries, consecutive>>
       ELSE LET st == AbortFrom(1, abortController,
                                Sup(conns, retries, consecutive))
            IN  /\ aborted' = aborted \cup
                                {[ctrl |-> abortController, by |-> t.armedFor]}
                /\ conns' = st.conns
                /\ retries' = st.retries
                /\ consecutive' = st.consecutive
    /\ ev' = Event("watchdog", t.by, <<>>, currentBackoff)
    /\ UNCHANGED <<config, overwrite, currentBackoff, abortController, connectionTimeout,
                   nData, delivered, inflight>>

\* the owner cancels: ts.abortController.abort(), on the controller the
\* getter returns; recorded as aborted by 0, no timer
OwnerAbort ==
    /\ phase = "created"
    /\ abortController # 0
    /\ abortController \notin AbortedCtrls
    /\ LET st == AbortFrom(1, abortController, Sup(conns, retries, consecutive))
       IN  /\ aborted' = aborted \cup {[ctrl |-> abortController, by |-> 0]}
           /\ conns' = st.conns
           /\ retries' = st.retries
           /\ consecutive' = st.consecutive
    /\ ev' = Event("ownerAbort", 0, <<>>, currentBackoff)
    /\ UNCHANGED <<config, overwrite, currentBackoff, abortController,
                   connectionTimeout, timers, nData, delivered, inflight>>

\* the body of stream i reports a transport error, which __streamPipe forwards:
\* the 'error' handler's branch for an error that is no AbortError only logs
StreamError(i) ==
    /\ i \in 1..Len(conns)
    /\ conns[i].st = "streaming"
    /\ conns[i].open
    /\ conns[i].errFwd
    /\ conns' = [conns EXCEPT ![i].open = FALSE, ![i].errFwd = FALSE]
    /\ ev' = Event("error", i, <<>>, currentBackoff)
    /\ UNCHANGED <<config, overwrite, currentBackoff, abortController, aborted,
                   connectionTimeout, timers, retries, consecutive, nData,
                   delivered, inflight>>

\* __sleep of retry r resolves: the 'timeout' handler calls createConnection
RetryWake(r) ==
    /\ r \in 1..Len(retries)
    /\ retries[r].pc = "sleep"
    /\ Len(conns) < MaxConns
    /\ conns' = Append(conns, CreateConnection("retry", r))
    /\ abortController' = conns'[Len(conns')].ctrl
    /\ retries' = [retries EXCEPT ![r].pc = "fetch", ![r].conn = Len(conns')]
    /\ ev' = Event("wake", Len(conns'), <<>>, currentBackoff)
    /\ UNCHANGED <<config, overwrite, currentBackoff, aborted, connectionTimeout, timers,
                   consecutive, nData, delivered, inflight>>

Next ==
    \/ CallerStart
    \/ \E i \in 1..MaxConns : FetchOk(i)
    \/ \E i \in 1..MaxConns : FetchFail(i)
    \/ \E i \in 1..MaxConns, chunk \in Chunks : Data(i, chunk)
    \/ HandlerDone
    \/ \E t \in timers : WatchdogFire(t)
    \/ \E i \in 1..MaxConns : StreamError(i)
    \/ \E r \in 1..Len(retries) : RetryWake(r)
    \/ OwnerAbort

Spec == Init /\ [][Next]_vars

\* the timer of a __sleep always fires: a retry that sleeps wakes
Wake == \E r \in 1..Len(retries) : RetryWake(r)

SpecLive == Spec /\ WF_vars(Wake)

TypeOK ==
    /\ phase = "created"
    /\ Len(conns) <= MaxConns
    /\ nData <= MaxData

\* the chunks of the runs that look at the classification of odd chunks
AllChunks == Chunks \cup FalsyValueChunks \cup {PartialChunk, TwoLinesChunk}

ChunksNext ==
    \/ CallerStart
    \/ \E i \in 1..MaxConns : FetchOk(i)
    \/ \E i \in 1..MaxConns : FetchFail(i)
    \/ \E i \in 1..MaxConns, chunk \in AllChunks : Data(i, chunk)
    \/ HandlerDone
    \/ \E t \in timers : WatchdogFire(t)
    \/ \E i \in 1..MaxConns : StreamError(i)
    \/ \E r \in 1..Len(retries) : RetryWake(r)
    \/ OwnerAbort

SpecChunks == Init /\ [][ChunksNext]_vars

(***************************************************************************)
(* Construction on arbitrary arguments.                                    *)
(***************************************************************************)
BearerValues == {Undefined, Null, Str(""), Num(5), Str("xxxxxxxxxxx")}

UrlValues == {Undefined, Str(""), Num(0), Obj("URL"), Str("https://api.twitter.com")}

TimeoutValues ==
    {Undefined, Null, Bool(FALSE), Str(""), Num(0), Str("30s"), Bool(TRUE),
     Num(30000)}

\* retry values without properties of their own
RetryPrimitives ==
    {Undefined, Null, Bool(FALSE), Num(0), Str(""), Bool(TRUE), Num(5), Str("yes")}

\* retry values that can carry base and customBackoff
RetryObjects == {Obj("retry"), Fn("retry")}

BaseValues == {Undefined, Null, Str(""), Num(0), Str("10s"), Bool(TRUE), Num(3)}

CustomBackoffValues ==
    {Undefined, Null, Num(0), Str(""), Num(7), Str("square"), Obj("x"), Fn("add")}

CtorArgs ==
    { Args(b, u, t, r, Undefined, Undefined) :
        b \in BearerValues, u \in UrlValues, t \in TimeoutValues,
        r \in RetryPrimitives }
    \cup
    { Args(b, u, t, r[1], r[2], r[3]) :
        b \in BearerValues, u \in UrlValues, t \in TimeoutValues,
        r \in RetryObjects \X BaseValues \X CustomBackoffValues }

CtorInit ==
    /\ impl \in Impls
    /\ args \in CtorArgs
    /\ phase = "new"
    /\ message = ""
    /\ timeout = Undefined
    /\ retry = Undefined
    /\ base = Undefined
    /\ currentBackoff = Undefined
    /\ customBackoff = Undefined
    /\ abortController = 0
    /\ Idle

\* new TwitterStreams(bearerToken, url, config)
Construct ==
    /\ phase = "new"
    /\ UNCHANGED <<impl, args>>
    /\ LET c == Constructor(impl, args)
       IN  /\ phase' = (IF c.thrown THEN "thrown" ELSE "created")
           /\ message' = c.message
           /\ timeout' = c.timeout
           /\ retry' = c.retry
           /\ base' = c.base
           /\ currentBackoff' = c.currentBackoff
           /\ customBackoff' = c.customBackoff
           /\ abortController' =
                (IF ~c.thrown /\ impl = "twitterStreams.js" THEN 1 ELSE 0)
    /\ UNCHANGED <<aborted, connectionTimeout, timers, conns, retries,
                   consecutive, nData, delivered, inflight, overwrite, ev>>

CtorNext == Construct

SpecCtor == CtorInit /\ [][CtorNext]_vars

(***************************************************************************)
(* overwriteRules.                                                         *)
(***************************************************************************)
\* rules listed by one response of getRules
MaxRules == 2

RuleIds == {"1", "2"}

Hashtags == {"googledown", "myhashtag"}

RECURSIVE SeqsUpTo(_, _)
\* the sequences over S of length at most n
SeqsUpTo(S, n) ==
    IF n = 0 THEN {<<>>}
    ELSE LET shorter == SeqsUpTo(S, n - 1)
         IN  shorter \cup {Append(q, x) : q \in shorter, x \in S}

\* the bodies getRules can return: {data: [{id}, ...]} or a body without data
RulesResponses ==
    {RulesResponse(FALSE, <<>>)}
    \cup {RulesResponse(TRUE, [i \in 1..Len(q) |-> Rule(q[i])]) :
            q \in SeqsUpTo(RuleIds, MaxRules)}

\* rules.data.map((item) => item.id)
MapIds(data) == [i \in 1..Len(data) |-> data[i].id]

AfterDelete_NoCatch(ok) == IF ok THEN "createRules" ELSE "rejected"

\* where overwriteRules continues when deleteRules has settled: the try/catch
\* swallows its rejection, createRules is called in both cases
AfterDelete(ok) == "createRules"

Settled(calls, ok) ==
    [calls EXCEPT ![Len(calls)].st = IF ok THEN "resolved" ELSE "rejected"]

\* overwriteRules(hashtag) up to its await of getRules
OverwriteRules(hashtag) ==
    /\ phase = "created"
    /\ overwrite.pc = "idle"
    /\ overwrite' = Overwrite("getRules", hashtag, overwrite.rules,
                              <<Call("getRules", <<>>, "")>>)
    /\ UNCHANGED <<config, currentBackoff, abortController, aborted,
                   connectionTimeout, timers, conns, retries, consecutive,
                   nData, delivered, inflight, ev>>

\* getRules resolves with the body r: with data, deleteRules(ids) is called;
\* without, rules.data.map throws inside the try and createRules is called
GetRulesResolve(r) ==
    /\ overwrite.pc = "getRules"
    /\ LET calls == Settled(overwrite.calls, TRUE)
       IN  overwrite' =
             IF r.hasData
             THEN Overwrite("deleteRules", overwrite.hashtag, r,
                            Append(calls, Call("deleteRules", MapIds(r.data), "")))
             ELSE Overwrite("createRules", overwrite.hashtag, r,
                            Append(calls, Call("createRules", <<>>, overwrite.hashtag)))
    /\ UNCHANGED <<config, currentBackoff, abortController, aborted,
                   connectionTimeout, timers, conns, retries, consecutive,
                   nData, delivered, inflight, ev>>

\* getRules rejects: nothing catches it, overwriteRules rejects
GetRulesReject ==
    /\ overwrite.pc = "getRules"
    /\ overwrite' = [overwrite EXCEPT !.pc = "rejected",
                                      !.calls = Settled(overwrite.calls, FALSE)]
    /\ UNCHANGED <<config, currentBackoff, abortController, aborted,
                   connectionTimeout, timers, conns, retries, consecutive,
                   nData, delivered, inflight, ev>>

\* deleteRules resolves or rejects; overwriteRules goes on to createRules
DeleteRulesSettle(ok) ==
    /\ overwrite.pc = "deleteRules"
    /\ LET calls == Settled(overwrite.calls, ok)
       IN  overwrite' =
             IF AfterDelete(ok) = "createRules"
             THEN [overwrite EXCEPT
                     !.pc = "createRules",
                     !.calls = Append(calls, Call("createRules", <<>>,
                                                  overwrite.hashtag))]
             ELSE [overwrite EXCEPT !.pc = AfterDelete(ok), !.calls = calls]
    /\ UNCHANGED <<config, currentBackoff, abortController, aborted,
                   connectionTimeout, timers, conns, retries, consecutive,
                   nData, delivered, inflight, ev>>

\* createRules resolves or rejects, and overwriteRules with it
CreateRulesSettle(ok) ==
    /\ overwrite.pc = "createRules"
    /\ overwrite' = [overwrite EXCEPT !.pc = IF ok THEN "done" ELSE "rejected",
                                      !.calls = Settled(overwrite.calls, ok)]
    /\ UNCHANGED <<config, currentBackoff, abortController, aborted,
                   connectionTimeout, timers, conns, retries, consecutive,
                   nData, delivered, inflight, ev>>

RulesNext ==
    \/ \E hashtag \in Hashtags : OverwriteRules(hashtag)
    \/ \E r \in RulesResponses : GetRulesResolve(r)
    \/ GetRulesReject
    \/ \E ok \in BOOLEAN : DeleteRulesSettle(ok)
    \/ \E ok \in BOOLEAN : CreateRulesSettle(ok)

SpecRules == Init /\ [][RulesNext]_vars

(***************************************************************************)
(* Properties.                                                             *)
(***************************************************************************)
\* the step handles a 'data' event
DataStep == nData' = nData + 1

LastRetry(rs) == rs[Len(rs)]

\* the step adds one run of the retry branch, sleeping the backoff of before
RetryStarted(i) ==
    /\ Len(retries') = Len(retries) + 1
    /\ SubSeq(retries', 1, Len(retries)) = retries
    /\ LastRetry(retries').pc = "sleep"
    /\ LastRetry(retries').from = i
    /\ LastRetry(retries').ms = currentBackoff

RECURSIVE Iterate(_, _, _)
\* f applied n times to x
Iterate(f, x, n) == IF n = 0 THEN x ELSE Iterate(f, Apply(f, x), n - 1)

\* C1 (as claimed): the k-th consecutive retry sleeps f applied k-1 times to
\* base, once all begun retries have reconnected the backoff is f applied to
\* base once per retry, and a payload or keep-alive chunk resets it to base
C1_AsClaimed ==
    /\ \A r \in 1..Len(retries) :
          retries[r].ms = Iterate(customBackoff, base, retries[r].k - 1)
    /\ (Truthy(retry) /\ \A r \in 1..Len(retries) : retries[r].pc = "done")
          => currentBackoff = Iterate(customBackoff, base, consecutive)
    /\ (ev.type = "data" /\ Classify(IsJSON(ev.chunk)) \in {"keepalive", "payload"})
          => currentBackoff = base

\* C2 (as claimed): on every stream readStream reads, a chunk that parses as
\* JSON without the title ConnectionException calls the caller's handler once
\* with the parsed object and resets the backoff to base
C2_AsClaimed ==
    [][(DataStep /\ JSONparse(ev'.chunk).ok
          /\ Title(JSONparse(ev'.chunk)) # Str("ConnectionException"))
        => /\ delivered' = Append(delivered, <<ev'.conn, JSONparse(ev'.chunk)>>)
           /\ currentBackoff' = base]_vars

\* C3: an empty-line chunk is a keep-alive: the handler is not called, the
\* backoff becomes base, no retry starts and the stream stays as it was, open
C3_KeepAlive ==
    [][(DataStep /\ ev'.chunk = KeepAliveChunk)
        => /\ delivered' = delivered
           /\ inflight' = inflight
           /\ currentBackoff' = base
           /\ retries' = retries
           /\ conns' = conns
           /\ conns'[ev'.conn].st = "streaming"
           /\ conns'[ev'.conn].open]_vars

C3_Witness ==
    /\ ev.type = "data"
    /\ ev.chunk = KeepAliveChunk
    /\ Truthy(retry)
    /\ ev.before # base
    /\ currentBackoff = base
    /\ conns[ev.conn].cb
    /\ conns[ev.conn].open

\* C4: a chunk whose title is ConnectionException does not call the handler
\* and does not reset the backoff; with retry configured it starts a retry that
\* sleeps the current backoff, and a retry leaves its sleep only by calling
\* createConnection
C4_ConnectionException ==
    /\ [][(DataStep /\ ev'.chunk = ExceptionChunk)
           => /\ delivered' = delivered
              /\ inflight' = inflight
              /\ currentBackoff' = currentBackoff
              /\ conns'[ev'.conn].timedOut
              /\ Truthy(retry) => RetryStarted(ev'.conn)]_vars
    /\ [][\A r \in 1..Len(retries) :
             (retries[r].pc = "sleep" /\ retries'[r].pc # "sleep")
             => /\ retries'[r].pc = "fetch"
                /\ Len(conns') = Len(conns) + 1
                /\ retries'[r].conn = Len(conns')
                /\ conns'[Len(conns')].st = "fetching"
                /\ conns'[Len(conns')].origin = "retry"]_vars

C4_Witness ==
    \E r \in 1..Len(retries) :
        /\ retries[r].pc = "fetch"
        /\ conns[retries[r].from].timedOut
        /\ conns[retries[r].from].ctrl \notin AbortedCtrls
        /\ delivered = <<>>

\* C5 (as claimed): without retry, a timeout, transport error or
\* ConnectionException starts no sleep and no connection, and afterwards no
\* chunk of that stream is handled
C5_AsClaimed ==
    /\ [](~Truthy(retry) => (retries = <<>> /\ Len(conns) <= 1))
    /\ [][(~Truthy(retry) /\ DataStep) => ~conns[ev'.conn].timedOut]_vars

\* C6 (as claimed): with retry, a transport error that is no AbortError starts
\* a retry sleeping the current backoff, as an idle timeout does
C6_AsClaimed ==
    [][\A i \in 1..Len(conns) :
          (Truthy(retry) /\ ev'.type = "error" /\ ev'.conn = i
             /\ conns[i].errFwd /\ ~conns'[i].errFwd)
          => RetryStarted(i)]_vars

\* C7 (as claimed): with retry, when the createConnection of a retry fails the
\* backoff grows by one application of the function and a new retry sleeps
C7_AsClaimed ==
    [][\A i \in 1..Len(conns) :
          (Truthy(retry) /\ conns[i].origin = "retry"
             /\ conns[i].st = "fetching" /\ conns'[i].st = "failed")
          => /\ currentBackoff' = IncreaseBackoff
             /\ Len(retries') = Len(retries) + 1
             /\ LastRetry(retries').pc = "sleep"]_vars

\* C8 (as claimed): no two createConnection calls use the same signal, and a
\* controller is aborted only by the owner or by a watchdog timer armed under it
C8_AsClaimed ==
    /\ \A i, j \in 1..Len(conns) : i # j => conns[i].ctrl # conns[j].ctrl
    /\ \A a \in aborted : a.by \in {0, a.ctrl}

\* C9 (as claimed): once a retry was requested for a stream, its further data
\* events call no handler, leave the backoff and the watchdog alone and start
\* no other retry
C9_AsClaimed ==
    [][(Truthy(retry) /\ DataStep /\ conns[ev'.conn].timedOut)
        => /\ delivered' = delivered
           /\ currentBackoff' = currentBackoff
           /\ timers' = timers
           /\ retries' = retries]_vars

\* the fields of the arguments that are missing or of the wrong type, a falsy
\* value of an optional field counting as wrong (the url only where the
\* constructor takes one)
WrongFields(i, a) ==
    {f \in {"bearer token", "url", "timeout", "retry", "retry.base",
            "retry.customBackoff"} :
        CASE f = "bearer token" ->
                 ~Truthy(a.bearerToken) \/ a.bearerToken.t # "string"
          [] f = "url" -> i = "part_002" /\ (~Truthy(a.url) \/ a.url.t # "string")
          [] f = "timeout" -> a.timeout # Undefined /\ a.timeout.t # "number"
          [] f = "retry" ->
                 a.retry # Undefined /\ a.retry.t \notin {"object", "function"}
          [] f = "retry.base" -> a.base # Undefined /\ a.base.t # "number"
          [] OTHER -> a.customBackoff # Undefined /\ a.customBackoff.t # "function"}

\* the same, a falsy value of an optional field counting as absent
TruthyWrongFields(i, a) ==
    {f \in WrongFields(i, a) :
        CASE f = "timeout" -> Truthy(a.timeout)
          [] f = "retry" -> Truthy(a.retry)
          [] f = "retry.base" -> Truthy(a.base)
          [] f = "retry.customBackoff" -> Truthy(a.customBackoff)
          [] OTHER -> TRUE}

NoInstance ==
    /\ phase = "thrown"
    /\ timeout = Undefined /\ retry = Undefined /\ base = Undefined
    /\ currentBackoff = Undefined /\ customBackoff = Undefined
    /\ abortController = 0

CallsOf(op) == SelectSeq(overwrite.calls, LAMBDA c : c.op = op)

\* C11: when getRules returned rules, deleteRules is called once with exactly
\* their ids in order ([1, 2] for the rules 1 and 2), it has resolved or
\* rejected when createRules is called, and once it has settled, createRules
\* has been called, also when it rejected
C11_OverwriteOrder ==
    /\ (overwrite.rules.hasData /\ overwrite.pc # "getRules")
         => /\ Len(CallsOf("deleteRules")) = 1
            /\ CallsOf("deleteRules")[1].ids =
                  [i \in 1..Len(overwrite.rules.data) |-> overwrite.rules.data[i].id]
            /\ (overwrite.rules.data = <<Rule("1"), Rule("2")>>
                  => CallsOf("deleteRules")[1].ids = <<"1", "2">>)
    /\ \A i \in 1..Len(overwrite.calls) :
          overwrite.calls[i].op = "createRules"
          => \A j \in 1..Len(overwrite.calls) :
                overwrite.calls[j].op = "deleteRules"
                => (j < i /\ overwrite.calls[j].st # "pending")
    /\ \A j \in 1..Len(overwrite.calls) :
          (overwrite.calls[j].op = "deleteRules" /\ overwrite.calls[j].st # "pending")
          => /\ Len(CallsOf("createRules")) = 1
             /\ CallsOf("createRules")[1].hashtag = overwrite.hashtag

C11_Witness ==
    /\ overwrite.rules = RulesResponse(TRUE, <<Rule("1"), Rule("2")>>)
    /\ Len(overwrite.calls) = 3
    /\ overwrite.calls[2] = [Call("deleteRules", <<"1", "2">>, "") EXCEPT !.st = "rejected"]
    /\ overwrite.calls[3].op = "createRules"
    /\ overwrite.pc = "done"

\* the README's default of retry.base
DefaultBase == 15000

IsNumber(v) == v.t = "number" /\ v.p # "NaN"

\* C12 (as claimed): retry: true and retry: {} are accepted and enable the
\* retry with base 15000 and the default backoff, and whenever retry is enabled
\* base and currentBackoff are numbers
C12_AsClaimed ==
    /\ (/\ phase # "new"
        /\ TruthyWrongFields(impl, args) \ {"retry"} = {}
        /\ \/ args.retry = Bool(TRUE)
           \/ /\ args.retry = Obj("retry")
              /\ args.base = Undefined
              /\ args.customBackoff = Undefined)
         => /\ phase = "created"
            /\ Truthy(retry)
            /\ base = Num(DefaultBase)
            /\ currentBackoff = Num(DefaultBase)
            /\ customBackoff = Fn("square")
    /\ (phase = "created" /\ Truthy(retry))
         => (IsNumber(base) /\ IsNumber(currentBackoff))

\* C13 (as claimed): the duration every watchdog timer is armed with is the
\* number 20000 when the configuration gives no timeout, and the given timeout
\* otherwise
C13_AsClaimed ==
    \A t \in timers :
        t.ms = (IF args.timeout = Undefined THEN Num(DefaultTimeout)
                ELSE args.timeout)

\* C14 (as claimed): when a stream starts being read a watchdog timer is
\* armed for it, and every chunk clears the pending timer and arms a new one
C14_AsClaimed ==
    /\ [](ev.type = "fetchOk" => \E t \in timers : t.by = ev.conn)
    /\ [][DataStep
           => /\ connectionTimeout' = TimerHandle(nData')
              /\ \E t \in timers' : t.id = nData' /\ t.by = ev'.conn
              /\ \A t \in timers : TimerHandle(t.id) = connectionTimeout
                                     => t \notin timers']_vars

\* the retries that sleep or reconnect
InProgress == {r \in 1..Len(retries) : retries[r].pc \in {"sleep", "fetch"}}

\* C15 (as claimed): at no time are two retry attempts in progress at once
C15_AsClaimed == Cardinality(InProgress) <= 1

\* C16 (as claimed): a chunk is classified only when no call of the handler is
\* still pending, so at most one call is in flight, and the handler is called
\* in the order of arrival
C16_AsClaimed ==
    /\ [][DataStep => inflight = 0]_vars
    /\ [](inflight <= 1)
    /\ [][DataStep => \/ delivered' = delivered
                      \/ /\ Len(delivered') = Len(delivered) + 1
                         /\ SubSeq(delivered', 1, Len(delivered)) = delivered]_vars

\* C17 (as claimed): a retry that leaves its sleep has applied the backoff
\* function once when it calls createConnection, and the outcome of the
\* connection attempt does not change the backoff again
C17_AsClaimed ==
    /\ [][\A r \in 1..Len(retries) :
             (retries[r].pc = "sleep" /\ retries'[r].pc = "fetch")
             => currentBackoff' = Apply(customBackoff, currentBackoff)]_vars
    /\ [][\A r \in 1..Len(retries) :
             (retries[r].pc = "fetch" /\ retries'[r].pc # "fetch")
             => currentBackoff' = currentBackoff]_vars

OwnerAborted == \E a \in aborted : a.by = 0

\* C18 (as claimed): once the owner has aborted the active controller, no
\* retry sleeps or reconnects, and no later step starts a retry, lets one
\* reconnect or calls the handler
C18_AsClaimed ==
    /\ [](OwnerAborted => InProgress = {})
    /\ [][OwnerAborted => /\ retries' = retries
                          /\ delivered' = delivered]_vars

\* C19: at most one watchdog timer is pending, and it is the one whose handle
\* the field __connectionTimeout holds: each arming has cleared the previous
C19_OneTimer ==
    /\ Cardinality(timers) <= 1
    /\ \A t \in timers : TimerHandle(t.id) = connectionTimeout

C19_Witness ==
    /\ ev.type = "data"
    /\ ev.conn = 2
    /\ conns[1].open
    /\ nData >= 2
    /\ aborted = {}
    /\ timers = {[id |-> nData, armedFor |-> abortController, by |-> 2,
                  ms |-> timeout]}

\* C20: a chunk that is no single JSON value (empty line, cut-off object, two
\* lines) or is the JSON value null, false, 0 or "" is handled as a
\* keep-alive: the handler is not called, no retry starts and the backoff
\* becomes base
C20_FalsyIsKeepAlive ==
    [][(DataStep /\ ev'.chunk \in FalsyValueChunks
                       \cup {KeepAliveChunk, PartialChunk, TwoLinesChunk})
        => /\ delivered' = delivered
           /\ inflight' = inflight
           /\ retries' = retries
           /\ currentBackoff' = base]_vars

C20_Witness ==
    /\ ev.type = "data"
    /\ ev.chunk = <<"null">>
    /\ conns[ev.conn].cb
    /\ Truthy(retry)
    /\ ev.before # base
    /\ currentBackoff = base
    /\ delivered = <<>>

====
